---- MODULE Spec2Model ----
(***************************************************************************)
(* Model of screener_app.py: one "Start Master Download" run.  The run is  *)
(* a linear script: start a headless browser, load the company page, then  *)
(* for each enabled document type harvest the page's anchors, classify,    *)
(* filter, sort, fetch every candidate to a fresh temporary directory,     *)
(* and finally quit the browser, report three counters and zip the files.  *)
(***************************************************************************)
EXTENDS Integers, Sequences, FiniteSets, TLC

\* ------------------------------------------------------------------------
\* Bounds of the exploration
\* ------------------------------------------------------------------------
\* Anchors the page shows to the scans of one run, all categories together.
MaxLinks == 2
\* Largest history limit entered in the sidebar (0 = unlimited).
MaxNum == 1

\* ------------------------------------------------------------------------
\* Program constants
\* ------------------------------------------------------------------------
\* download_file: a stored file smaller than this is deleted.
MinDownloadSize == 1000
\* Skip-if-exists thresholds of the fetch loops (strictly greater than).
SkipSizePdf == 5000
SkipSizeConcall == 1000
DefaultNumYears == 1
DefaultNumCount == 4
DaysPerYear == 365

\* The date of datetime.now() in the run.
Today == <<2025, 6, 15>>

\* ------------------------------------------------------------------------
\* Dates
\* ------------------------------------------------------------------------
\* Day number of a civil date (proleptic Gregorian), as datetime orders them.
Ordinal(dt) ==
    LET y   == IF dt[2] <= 2 THEN dt[1] - 1 ELSE dt[1]
        era == y \div 400
        yoe == y - era * 400
        mp  == (dt[2] + 9) % 12
        doy == (153 * mp + 2) \div 5 + dt[3] - 1
        doe == yoe * 365 + yoe \div 4 - yoe \div 100 + doy
    IN  era * 146097 + doe

\* Variant of CutoffDate without the `None if num == 0` case.
CutoffDateAlways(num) == Ordinal(Today) - num * DaysPerYear

\* None when num = 0, else now - timedelta(days = num * 365), as a day number.
\* -1 stands for None (every day number of the model is positive).
CutoffDate(num) == IF num = 0 THEN -1 ELSE Ordinal(Today) - num * DaysPerYear

\* "cutoff and date < cutoff": the candidate is older than the window.  now
\* carries a time of day past midnight and a candidate's date is a midnight,
\* so a candidate dated on the cutoff day itself is older than the cutoff.
BeforeCutoff(dt, cutoff) == cutoff # -1 /\ Ordinal(dt) <= cutoff

\* Variant of YearMonthStr: the month written without zero padding
\* ("%Y-%-m" / f"{yr}-{mo}").
YearMonthStrUnpadded(y, m) ==
    << y \div 1000, (y \div 100) % 10, (y \div 10) % 10, y % 10 >>
        \o (IF m >= 10 THEN << m \div 10, m % 10 >> ELSE << m >>)

\* strftime("%Y-%m") / f"{yr}-{mo:02d}": the digits of the text, year first,
\* month zero-padded to two digits.  Python compares these strings digit by
\* digit; the dash sits at the same place in all of them.
YearMonthStr(y, m) ==
    << y \div 1000, (y \div 100) % 10, (y \div 10) % 10, y % 10, m \div 10, m % 10 >>

\* Python's str order: first differing character decides, a proper prefix is smaller.
RECURSIVE StrLess(_, _)
StrLess(a, b) ==
    IF b = << >> THEN FALSE
    ELSE IF a = << >> THEN TRUE
    ELSE IF Head(a) # Head(b) THEN Head(a) < Head(b)
    ELSE StrLess(Tail(a), Tail(b))

\* ------------------------------------------------------------------------
\* The page: anchors as the classifiers see them
\* ------------------------------------------------------------------------
\* An anchor is abstracted to what the scans test of it:
\*   kind   which text/attribute pattern it satisfies ("stale": reading it raises)
\*   href   its target ("" when get_attribute returns None or "")
\*   date   <<year, month, day>> recovered from text / context / table header
\*          (<<0,0,0>> when no date pattern is found; an annual report's
\*          text carries a year only: <<year, 0, 0>>)
\*   agency the word after "from", lower-cased ("" when there is none)
Link(k, h, dt, ag) == [kind |-> k, href |-> h, date |-> dt, agency |-> ag]
NoDate == <<0, 0, 0>>

AnnualLinks ==
    { Link("annual", "u1", <<2024, 0, 0>>, ""),
      Link("annual", "u2", <<2024, 0, 0>>, ""),
      Link("annual", "u2", <<2019, 0, 0>>, ""),
      Link("annual", "",   <<2019, 0, 0>>, "") }

RatingLinks ==
    { Link("rating", "u1", <<2025, 1, 10>>, "crisil"),
      Link("rating", "u2", <<2025, 1, 10>>, "crisil"),
      Link("rating", "u2", <<2019, 3, 5>>, ""),
      Link("rating", "u1", NoDate, "crisil") }

ConcallLinks ==
    { Link("transcript", "u2", NoDate, ""),
      Link("transcript", "u1", <<2024, 9, 1>>, ""),
      Link("transcript", "u5", <<2024, 9, 1>>, ""),
      Link("ppt", "u3", <<2024, 9, 1>>, ""),
      Link("ppt", "u4", <<2024, 10, 1>>, "") }

\* An anchor whose text or attribute cannot be read (stale element).
StaleLink == Link("stale", "", NoDate, "")

QuarterlyLinks ==
    { Link("quarterly", "u1", <<2024, 9, 1>>, ""),
      Link("quarterly", "u2", <<2024, 10, 1>>, ""),
      Link("quarterly", "u1", <<2025, 3, 1>>, ""),
      StaleLink }

\* All sequences over S of length at most n.
SeqsUpTo(S, n) == UNION { [1..k -> S] : k \in 0..n }

\* ------------------------------------------------------------------------
\* Sorting as list.sort(key=..., reverse=True) does: descending by key, and
\* elements of equal key keep their order (the sort is stable).
\* ------------------------------------------------------------------------
\* The sort key: key=lambda x: x["year"] or key=lambda x: x["date"].
KeyOf(e, key) == IF key = "year" THEN e.year ELSE Ordinal(e.date)

\* Insert e into the descending sequence s behind every element whose key is
\* greater than or equal to e's.
RECURSIVE InsertDesc(_, _, _)
InsertDesc(s, e, key) ==
    IF s = << >> THEN << e >>
    ELSE IF KeyOf(Head(s), key) < KeyOf(e, key) THEN << e >> \o s
    ELSE << Head(s) >> \o InsertDesc(Tail(s), e, key)

RECURSIVE SortDesc(_, _)
SortDesc(s, key) ==
    IF s = << >> THEN << >>
    ELSE InsertDesc(SortDesc(SubSeq(s, 1, Len(s) - 1), key), s[Len(s)], key)

\* s[:n]
Take(s, n) == SubSeq(s, 1, IF n < Len(s) THEN n ELSE Len(s))

\* ------------------------------------------------------------------------
\* Annual reports: scan, recency filter, de-duplication, sort
\* ------------------------------------------------------------------------
\* The loop over all_links, from anchor i on, with the list and the seen set
\* built so far.
RECURSIVE AnnualLoop(_, _, _, _, _)
AnnualLoop(links, i, acc, seen, cutoff) ==
    IF i > Len(links) THEN acc
    ELSE LET link == links[i] IN
         IF /\ link.kind = "annual"
            /\ link.href # ""
            /\ link.href \notin seen
         THEN IF BeforeCutoff(<<link.date[1], 12, 31>>, cutoff)
              THEN AnnualLoop(links, i + 1, acc, seen, cutoff)
              ELSE AnnualLoop(links, i + 1,
                              Append(acc, [year |-> link.date[1], url |-> link.href]),
                              seen \cup {link.href}, cutoff)
         ELSE AnnualLoop(links, i + 1, acc, seen, cutoff)

AnnualScan(links, num) ==
    SortDesc(AnnualLoop(links, 1, << >>, {}, CutoffDate(num)), "year")

\* ------------------------------------------------------------------------
\* Credit ratings
\* ------------------------------------------------------------------------
RECURSIVE RatingLoop(_, _, _, _, _)
RatingLoop(links, i, acc, seen, cutoff) ==
    IF i > Len(links) THEN acc
    ELSE LET link == links[i] IN
         IF /\ link.kind = "rating"
            /\ link.href # ""
            /\ link.href \notin seen
            /\ link.date # NoDate
            /\ ~BeforeCutoff(link.date, cutoff)
         THEN RatingLoop(links, i + 1,
                         Append(acc, [date |-> link.date, url |-> link.href,
                                      agency |-> IF link.agency = "" THEN "unknown"
                                                 ELSE link.agency]),
                         seen \cup {link.href}, cutoff)
         ELSE RatingLoop(links, i + 1, acc, seen, cutoff)

RatingScan(links, num) ==
    SortDesc(RatingLoop(links, 1, << >>, {}, CutoffDate(num)), "date")

\* ------------------------------------------------------------------------
\* Concalls: month buckets
\* ------------------------------------------------------------------------
NoUrl == ""

\* Variant of ConcallLoop: every sighting stores a fresh bucket under its key.
RECURSIVE ConcallLoopFreshBucket(_, _, _)
ConcallLoopFreshBucket(links, i, data) ==
    IF i > Len(links) THEN data
    ELSE LET link == links[i]
             is_t == link.kind = "transcript"
             is_p == link.kind = "ppt"
         IN
         IF (is_t \/ is_p) /\ link.href # "" /\ link.date # NoDate
         THEN LET cd  == <<link.date[1], link.date[2], 1>>
                  ds  == YearMonthStr(cd[1], cd[2])
                  old == [date |-> cd, transcript |-> NoUrl, ppt |-> NoUrl]
                  new == IF is_t THEN [old EXCEPT !.transcript = link.href]
                         ELSE [old EXCEPT !.ppt = link.href]
              IN  ConcallLoopFreshBucket(links, i + 1,
                              [k \in (DOMAIN data) \cup {ds} |->
                                  IF k = ds THEN new ELSE data[k]])
         ELSE ConcallLoopFreshBucket(links, i + 1, data)

\* concalls_data after the loop over all_links: a dict from "%Y-%m" key to
\* {"date", "transcript", "ppt"}.
RECURSIVE ConcallLoop(_, _, _)
ConcallLoop(links, i, data) ==
    IF i > Len(links) THEN data
    ELSE LET link == links[i]
             is_t == link.kind = "transcript"
             is_p == link.kind = "ppt"
         IN
         IF (is_t \/ is_p) /\ link.href # "" /\ link.date # NoDate
         THEN LET cd  == <<link.date[1], link.date[2], 1>>
                  ds  == YearMonthStr(cd[1], cd[2])
                  old == IF ds \in DOMAIN data THEN data[ds]
                         ELSE [date |-> cd, transcript |-> NoUrl, ppt |-> NoUrl]
                  new == IF is_t THEN [old EXCEPT !.transcript = link.href]
                         ELSE [old EXCEPT !.ppt = link.href]
              IN  ConcallLoop(links, i + 1,
                              [k \in (DOMAIN data) \cup {ds} |->
                                  IF k = ds THEN new ELSE data[k]])
         ELSE ConcallLoop(links, i + 1, data)

EmptyDict == [k \in {} |-> 0]

ConcallScan(links) == ConcallLoop(links, 1, EmptyDict)

\* sorted(keys, reverse=True): the keys are distinct strings.
RECURSIVE SortedKeysDesc(_)
SortedKeysDesc(keys) ==
    IF keys = {} THEN << >>
    ELSE LET mx == CHOOSE k \in keys : \A o \in keys : ~StrLess(k, o)
         IN  << mx >> \o SortedKeysDesc(keys \ {mx})

ConcallSelect(data, num) ==
    LET sorted == SortedKeysDesc(DOMAIN data)
    IN  IF num > 0 THEN Take(sorted, num) ELSE sorted

\* ------------------------------------------------------------------------
\* Quarterly reports
\* ------------------------------------------------------------------------
RECURSIVE QuarterlyLoop(_, _, _)
QuarterlyLoop(links, i, acc) ==
    IF i > Len(links) THEN acc
    ELSE LET link == links[i] IN
         IF link.kind = "quarterly" /\ link.href # "" /\ link.date # NoDate
         THEN QuarterlyLoop(links, i + 1,
                  Append(acc, [date |-> <<link.date[1], link.date[2], 1>>,
                               date_str |-> YearMonthStr(link.date[1], link.date[2]),
                               url |-> link.href]))
         ELSE QuarterlyLoop(links, i + 1, acc)

QuarterlyScan(links, num) ==
    LET sorted == SortDesc(QuarterlyLoop(links, 1, << >>), "date")
    IN  IF num > 0 THEN Take(sorted, num) ELSE sorted

\* ------------------------------------------------------------------------
\* Destination paths under company_dir
\* ------------------------------------------------------------------------
\* dir / f"{name}_{stamp}{_tag}.pdf": stamp is the text of the year or date
\* (its digits), tag the upper-cased agency of a credit rating.
Path(dir, name, stamp, tag) == [dir |-> dir, name |-> name, stamp |-> stamp, tag |-> tag]

\* str(year) of a four-digit year
YearStr(y) == << y \div 1000, (y \div 100) % 10, (y \div 10) % 10, y % 10 >>
\* strftime("%Y-%m-%d")
DateStr(dt) == YearMonthStr(dt[1], dt[2]) \o << dt[3] \div 10, dt[3] % 10 >>
\* str.upper() on the agency words of the model
Upper(ag) == CASE ag = "crisil" -> "CRISIL"
               [] ag = "unknown" -> "UNKNOWN"
               [] OTHER -> ag

AnnualPath(rpt) == Path("Annual_Reports", "Annual_Report", YearStr(rpt.year), "")
RatingPath(rat) == Path("Credit_Ratings", "Credit_Rating", DateStr(rat.date), Upper(rat.agency))
TranscriptPath(dk) == Path("Transcripts", "Transcript", dk, "")
\* Variant of PptPath: presentations are stored as the month's transcript.
PptPathAsTranscript(dk) == Path("Transcripts", "Transcript", dk, "")
PptPath(dk) == Path("Presentations", "PPT", dk, "")
QuarterlyPath(rpt) == Path("Quarterly_Reports", "Quarterly_Report", rpt.date_str, "")

\* ------------------------------------------------------------------------
\* download_file
\* ------------------------------------------------------------------------
\* What the server and the file system do to one download:
\*   get_raises    requests.get raises (connection error, timeout)
\*   bad_status    raise_for_status raises (4xx / 5xx)
\*   mkdir_raises  the parent directory cannot be created
\*   write_raises  the body stream or the write fails after `size` bytes
\*   ok            the whole body of `size` bytes is written
Resp(k, n) == [kind |-> k, size |-> n]
BodySizes == { MinDownloadSize - 1, MinDownloadSize, SkipSizePdf - 1, SkipSizePdf,
               SkipSizePdf + 1 }
PartialSizes == { MinDownloadSize - 1 }
Responses ==
    { Resp(k, 0) : k \in {"get_raises", "bad_status", "mkdir_raises"} }
        \cup { Resp("write_raises", n) : n \in PartialSizes }
        \cup { Resp("ok", n) : n \in BodySizes }

\* files with filepath holding n bytes / without filepath
Store(fls, filepath, n) == [q \in (DOMAIN fls) \cup {filepath} |-> IF q = filepath THEN n ELSE fls[q]]
Unlink(fls, filepath) == [q \in (DOMAIN fls) \ {filepath} |-> fls[q]]

\* Variant of DownloadFile: the size test is `<=` instead of `<`.
DownloadFileOffByOne(fls, drs, filepath, resp) ==
    IF resp.kind \in {"get_raises", "bad_status", "mkdir_raises"}
    THEN [files |-> fls, dirs |-> drs, ret |-> FALSE, gets |-> 1]
    ELSE IF resp.kind = "write_raises"
    THEN [files |-> Store(fls, filepath, resp.size), dirs |-> drs \cup {filepath.dir},
          ret |-> FALSE, gets |-> 1]
    ELSE IF resp.size <= MinDownloadSize
    THEN [files |-> Unlink(fls, filepath), dirs |-> drs \cup {filepath.dir},
          ret |-> FALSE, gets |-> 1]
    ELSE [files |-> Store(fls, filepath, resp.size), dirs |-> drs \cup {filepath.dir},
          ret |-> TRUE, gets |-> 1]

\* Variant of DownloadFile: a second GET after a failed first one.
DownloadFileRetries(fls, drs, filepath, resp) ==
    IF resp.kind \in {"get_raises", "bad_status", "mkdir_raises"}
    THEN [files |-> fls, dirs |-> drs, ret |-> FALSE, gets |-> 2]
    ELSE IF resp.kind = "write_raises"
    THEN [files |-> Store(fls, filepath, resp.size), dirs |-> drs \cup {filepath.dir},
          ret |-> FALSE, gets |-> 2]
    ELSE IF resp.size < MinDownloadSize
    THEN [files |-> Unlink(fls, filepath), dirs |-> drs \cup {filepath.dir},
          ret |-> FALSE, gets |-> 1]
    ELSE [files |-> Store(fls, filepath, resp.size), dirs |-> drs \cup {filepath.dir},
          ret |-> TRUE, gets |-> 1]

\* download_file(url, filepath) against response resp: the files and
\* directories afterwards, the value returned and the GETs issued.
DownloadFile(fls, drs, filepath, resp) ==
    IF resp.kind \in {"get_raises", "bad_status", "mkdir_raises"}
    THEN [files |-> fls, dirs |-> drs, ret |-> FALSE, gets |-> 1]
    ELSE IF resp.kind = "write_raises"
    THEN [files |-> Store(fls, filepath, resp.size), dirs |-> drs \cup {filepath.dir},
          ret |-> FALSE, gets |-> 1]
    ELSE IF resp.size < MinDownloadSize
    THEN [files |-> Unlink(fls, filepath), dirs |-> drs \cup {filepath.dir},
          ret |-> FALSE, gets |-> 1]
    ELSE [files |-> Store(fls, filepath, resp.size), dirs |-> drs \cup {filepath.dir},
          ret |-> TRUE, gets |-> 1]

\* fp.exists() and fp.stat().st_size > threshold
ExistsBigger(fls, filepath, threshold) ==
    filepath \in DOMAIN fls /\ fls[filepath] > threshold

\* One candidate of a fetch loop: skip, or download and count.
FetchOne(fls, drs, filepath, threshold, resp) ==
    IF ExistsBigger(fls, filepath, threshold)
    THEN [files |-> fls, dirs |-> drs, outcome |-> "skipped_existing", gets |-> 0]
    ELSE LET r == DownloadFile(fls, drs, filepath, resp)
         IN  [files |-> r.files, dirs |-> r.dirs,
              outcome |-> IF r.ret THEN "downloaded" ELSE "failed", gets |-> r.gets]

\* ------------------------------------------------------------------------
\* State of one run
\* ------------------------------------------------------------------------
VARIABLES
    pc,                 \* position in the script
    d_annual, d_credit, d_transcripts, d_presentations, d_quarterly,
    num_annual, num_credit, num_concalls, num_quarterly,
    driver,             \* "None" | "live" | "quit"
    company_dir,        \* TRUE once the name company_dir is bound (line 199)
    all_links,          \* the anchors of the latest find_elements
    annual_reports, ratings, concalls_data, sorted_dates, qr,
    idx,                \* position of the running fetch loop
    downloaded_count, skipped_count, failed_count,
    files,              \* regular files under company_dir: path -> bytes
    dirs,               \* sub-directories of company_dir created so far
    gets,               \* HTTP GETs issued by download_file so far
    log,                \* the fetch attempts so far: <<[cat, path, outcome, wrote]>>
    last,               \* the latest fetch attempt, with its response
    links_seen,         \* anchors scanned so far in the run
    swallowed,          \* an inner try block has swallowed an exception
    error_shown,        \* the outer except has shown "Error: ..."
    summary,            \* the three metrics once shown, else NoSummary
    archive             \* the arcnames of the zip once built, else NoArchive

toggles == << d_annual, d_credit, d_transcripts, d_presentations, d_quarterly >>
limits  == << num_annual, num_credit, num_concalls, num_quarterly >>
lists   == << annual_reports, ratings, concalls_data, sorted_dates, qr >>
counts  == << downloaded_count, skipped_count, failed_count >>
disk    == << files, dirs >>
fetched == << counts, disk, gets, log, last >>
report  == << error_shown, summary, archive >>
vars    == << pc, toggles, limits, driver, company_dir, all_links, lists, idx,
              fetched, links_seen, swallowed, report >>

NoSummary == << >>
NoArchive == [built |-> FALSE, names |-> {}, raised |-> FALSE]
NoAttempt == [cat |-> "", path |-> Path("", "", << >>, ""), resp |-> Resp("", 0),
              outcome |-> ""]

\* The history limits entered: 0 (everything) or MaxNum.
Nums == {0, MaxNum}

\* The sidebar selections explored: the default ticks (annual reports and
\* credit ratings), each document type alone, both concall types, and all.
Selections ==
    { {"annual", "credit"}, {"annual"}, {"credit"}, {"transcripts"},
      {"presentations"}, {"transcripts", "presentations"}, {"quarterly"},
      {"annual", "credit", "transcripts", "presentations", "quarterly"} }

\* A limit is asked for only when its document type is ticked (lines 125-137);
\* the runs explored enter the same number in every limit shown.
Init ==
    /\ pc = "setup"
    /\ \E ticked \in Selections, n \in Nums :
          /\ d_annual = ("annual" \in ticked)
          /\ d_credit = ("credit" \in ticked)
          /\ d_transcripts = ("transcripts" \in ticked)
          /\ d_presentations = ("presentations" \in ticked)
          /\ d_quarterly = ("quarterly" \in ticked)
          /\ num_annual = (IF d_annual THEN n ELSE DefaultNumYears)
          /\ num_credit = (IF d_credit THEN n ELSE DefaultNumYears)
          /\ num_concalls = (IF d_transcripts \/ d_presentations THEN n
                             ELSE DefaultNumCount)
          /\ num_quarterly = (IF d_quarterly THEN n ELSE DefaultNumCount)
    /\ driver = "None"
    /\ company_dir = FALSE
    /\ all_links = << >>
    /\ annual_reports = << >> /\ ratings = << >> /\ concalls_data = EmptyDict
    /\ sorted_dates = << >> /\ qr = << >>
    /\ idx = 0
    /\ downloaded_count = 0 /\ skipped_count = 0 /\ failed_count = 0
    /\ files = EmptyDict /\ dirs = {}
    /\ gets = 0 /\ log = << >> /\ last = NoAttempt
    /\ links_seen = 0
    /\ swallowed = FALSE
    /\ error_shown = FALSE /\ summary = NoSummary /\ archive = NoArchive

\* ------------------------------------------------------------------------
\* Browser setup
\* ------------------------------------------------------------------------
\* webdriver.Chrome(...): the session starts, or the constructor raises.
StartBrowser ==
    /\ pc = "setup"
    /\ \E started \in BOOLEAN :
          IF started THEN driver' = "live" /\ pc' = "load"
          ELSE driver' = driver /\ pc' = "except"
    /\ UNCHANGED << toggles, limits, company_dir, all_links, lists, idx, fetched,
                    links_seen, swallowed, report >>

\* driver.get(screener_url) and tempfile.mkdtemp(): either may raise; when
\* both succeed company_dir names a directory of a fresh, empty temp dir.
LoadPage ==
    /\ pc = "load"
    /\ \E loaded \in BOOLEAN :
          IF loaded THEN company_dir' = TRUE /\ pc' = "annual"
          ELSE company_dir' = company_dir /\ pc' = "except"
    /\ UNCHANGED << toggles, limits, driver, all_links, lists, idx, fetched,
                    links_seen, swallowed, report >>

\* The page's anchors a scan may find: at most what is left of MaxLinks.
Pages(S) == SeqsUpTo(S, MaxLinks - links_seen)

HasStale(links) == \E i \in 1..Len(links) : links[i].kind = "stale"

\* Variant of AfterScan: a heading or expander lookup outside its try block,
\* so a section that is not found raises into the outer except.
AfterScanLookupUnguarded(found, list, fetchPc, nextPc) ==
    IF ~found THEN "except"
    ELSE IF list = << >> THEN nextPc ELSE fetchPc

\* Where a category goes after its scan.  The heading and expander lookups
\* sit in try/except: pass, so whether they were found changes nothing; the
\* fetch loop runs when the list is not empty.
AfterScan(found, list, fetchPc, nextPc) == IF list = << >> THEN nextPc ELSE fetchPc

\* Variant of Count: the skip branch bumps only its section counter.
CountSkipNotTotalled(outcome) ==
    /\ downloaded_count' = downloaded_count + (IF outcome = "downloaded" THEN 1 ELSE 0)
    /\ skipped_count' = skipped_count
    /\ failed_count' = failed_count + (IF outcome = "failed" THEN 1 ELSE 0)

\* The counters after one fetch attempt with the given outcome.
Count(outcome) ==
    /\ downloaded_count' = downloaded_count + (IF outcome = "downloaded" THEN 1 ELSE 0)
    /\ skipped_count' = skipped_count + (IF outcome = "skipped_existing" THEN 1 ELSE 0)
    /\ failed_count' = failed_count + (IF outcome = "failed" THEN 1 ELSE 0)

\* Lines 57-59: the responses for which download_file opens filepath for
\* writing (the GET and the mkdir have passed).
WritingKinds == {"write_raises", "ok"}

\* One fetch attempt of category cat to filepath: disk, counters and history.
Attempt(cat, filepath, threshold, resp) ==
    LET r == FetchOne(files, dirs, filepath, threshold, resp) IN
    /\ files' = r.files
    /\ dirs' = r.dirs
    /\ Count(r.outcome)
    /\ gets' = gets + r.gets
    /\ log' = Append(log, [cat |-> cat, path |-> filepath, outcome |-> r.outcome,
                            wrote |-> r.gets > 0 /\ resp.kind \in WritingKinds])
    /\ last' = [cat |-> cat, path |-> filepath, outcome |-> r.outcome,
                resp |-> IF r.gets = 0 THEN Resp("", 0) ELSE resp]

\* ------------------------------------------------------------------------
\* Annual reports
\* ------------------------------------------------------------------------
AnnualOff ==
    /\ pc = "annual" /\ ~d_annual
    /\ pc' = "credit"
    /\ UNCHANGED << toggles, limits, driver, company_dir, all_links, lists, idx,
                    fetched, links_seen, swallowed, report >>

\* driver.find_elements(By.TAG_NAME, "a") (line 237) is outside every inner try.
AnnualHarvestRaises ==
    /\ pc = "annual" /\ d_annual
    /\ pc' = "except"
    /\ UNCHANGED << toggles, limits, driver, company_dir, all_links, lists, idx,
                    fetched, links_seen, swallowed, report >>

\* Lines 207-253: heading and expander (found or not), harvest, scan, sort.
AnnualScanStep ==
    /\ pc = "annual" /\ d_annual
    /\ \E links \in Pages(AnnualLinks), found \in BOOLEAN :
          /\ all_links' = links
          /\ links_seen' = links_seen + Len(links)
          /\ swallowed' = (swallowed \/ ~found \/ HasStale(links))
          /\ annual_reports' = AnnualScan(links, num_annual)
          /\ pc' = AfterScan(found, annual_reports', "annual_fetch", "credit")
    /\ idx' = 1
    /\ UNCHANGED << toggles, limits, driver, company_dir, ratings, concalls_data,
                    sorted_dates, qr, fetched, report >>

\* One iteration of the loop of lines 259-272.
AnnualFetch ==
    /\ pc = "annual_fetch"
    /\ \E resp \in Responses :
          Attempt("annual", AnnualPath(annual_reports[idx]), SkipSizePdf, resp)
    /\ idx' = idx + 1
    /\ pc' = IF idx < Len(annual_reports) THEN "annual_fetch" ELSE "credit"
    /\ UNCHANGED << toggles, limits, driver, company_dir, all_links, lists,
                    links_seen, swallowed, report >>

\* ------------------------------------------------------------------------
\* Credit ratings
\* ------------------------------------------------------------------------
CreditOff ==
    /\ pc = "credit" /\ ~d_credit
    /\ pc' = "concalls"
    /\ UNCHANGED << toggles, limits, driver, company_dir, all_links, lists, idx,
                    fetched, links_seen, swallowed, report >>

CreditHarvestRaises ==
    /\ pc = "credit" /\ d_credit
    /\ pc' = "except"
    /\ UNCHANGED << toggles, limits, driver, company_dir, all_links, lists, idx,
                    fetched, links_seen, swallowed, report >>

CreditScanStep ==
    /\ pc = "credit" /\ d_credit
    /\ \E links \in Pages(RatingLinks), found \in BOOLEAN :
          /\ all_links' = links
          /\ links_seen' = links_seen + Len(links)
          /\ swallowed' = (swallowed \/ ~found \/ HasStale(links))
          /\ ratings' = RatingScan(links, num_credit)
          /\ pc' = AfterScan(found, ratings', "credit_fetch", "concalls")
    /\ idx' = 1
    /\ UNCHANGED << toggles, limits, driver, company_dir, annual_reports,
                    concalls_data, sorted_dates, qr, fetched, report >>

CreditFetch ==
    /\ pc = "credit_fetch"
    /\ \E resp \in Responses :
          Attempt("credit", RatingPath(ratings[idx]), SkipSizePdf, resp)
    /\ idx' = idx + 1
    /\ pc' = IF idx < Len(ratings) THEN "credit_fetch" ELSE "concalls"
    /\ UNCHANGED << toggles, limits, driver, company_dir, all_links, lists,
                    links_seen, swallowed, report >>

\* ------------------------------------------------------------------------
\* Transcripts and presentations
\* ------------------------------------------------------------------------
ConcallsOff ==
    /\ pc = "concalls" /\ ~(d_transcripts \/ d_presentations)
    /\ pc' = "quarterly"
    /\ UNCHANGED << toggles, limits, driver, company_dir, all_links, lists, idx,
                    fetched, links_seen, swallowed, report >>

ConcallsHarvestRaises ==
    /\ pc = "concalls" /\ (d_transcripts \/ d_presentations)
    /\ pc' = "except"
    /\ UNCHANGED << toggles, limits, driver, company_dir, all_links, lists, idx,
                    fetched, links_seen, swallowed, report >>

ConcallsScanStep ==
    /\ pc = "concalls" /\ (d_transcripts \/ d_presentations)
    /\ \E links \in Pages(ConcallLinks), found \in BOOLEAN :
          /\ all_links' = links
          /\ links_seen' = links_seen + Len(links)
          /\ swallowed' = (swallowed \/ ~found \/ HasStale(links))
          /\ concalls_data' = ConcallScan(links)
          /\ sorted_dates' = ConcallSelect(concalls_data', num_concalls)
          /\ pc' = AfterScan(found, sorted_dates', "transcript_fetch", "quarterly")
    /\ idx' = 1
    /\ UNCHANGED << toggles, limits, driver, company_dir, annual_reports, ratings,
                    qr, fetched, report >>

\* Lines 450-458: the transcript of bucket sorted_dates[idx], if wanted and present.
TranscriptFetch ==
    /\ pc = "transcript_fetch"
    /\ LET dk == sorted_dates[idx] IN
       IF d_transcripts /\ concalls_data[dk].transcript # NoUrl
       THEN \E resp \in Responses :
                Attempt("transcript", TranscriptPath(dk), SkipSizeConcall, resp)
       ELSE UNCHANGED fetched
    /\ pc' = "ppt_fetch"
    /\ UNCHANGED << toggles, limits, driver, company_dir, all_links, lists, idx,
                    links_seen, swallowed, report >>

\* Variant of PptFetch: the presentation is fetched whenever the bucket has one.
PptFetchUntoggled ==
    /\ pc = "ppt_fetch"
    /\ LET dk == sorted_dates[idx] IN
       IF concalls_data[dk].ppt # NoUrl
       THEN \E resp \in Responses :
                Attempt("ppt", PptPath(dk), SkipSizeConcall, resp)
       ELSE UNCHANGED fetched
    /\ idx' = idx + 1
    /\ pc' = IF idx < Len(sorted_dates) THEN "transcript_fetch" ELSE "quarterly"
    /\ UNCHANGED << toggles, limits, driver, company_dir, all_links, lists,
                    links_seen, swallowed, report >>

\* Lines 460-470: the presentation of the same bucket, then the next bucket.
PptFetch ==
    /\ pc = "ppt_fetch"
    /\ LET dk == sorted_dates[idx] IN
       IF d_presentations /\ concalls_data[dk].ppt # NoUrl
       THEN \E resp \in Responses :
                Attempt("ppt", PptPath(dk), SkipSizeConcall, resp)
       ELSE UNCHANGED fetched
    /\ idx' = idx + 1
    /\ pc' = IF idx < Len(sorted_dates) THEN "transcript_fetch" ELSE "quarterly"
    /\ UNCHANGED << toggles, limits, driver, company_dir, all_links, lists,
                    links_seen, swallowed, report >>

\* ------------------------------------------------------------------------
\* Quarterly reports
\* ------------------------------------------------------------------------
QuarterlyOff ==
    /\ pc = "quarterly" /\ ~d_quarterly
    /\ pc' = "finally"
    /\ UNCHANGED << toggles, limits, driver, company_dir, all_links, lists, idx,
                    fetched, links_seen, swallowed, report >>

QuarterlyHarvestRaises ==
    /\ pc = "quarterly" /\ d_quarterly
    /\ pc' = "except"
    /\ UNCHANGED << toggles, limits, driver, company_dir, all_links, lists, idx,
                    fetched, links_seen, swallowed, report >>

QuarterlyScanStep ==
    /\ pc = "quarterly" /\ d_quarterly
    /\ \E links \in Pages(QuarterlyLinks), found \in BOOLEAN :
          /\ all_links' = links
          /\ links_seen' = links_seen + Len(links)
          /\ swallowed' = (swallowed \/ ~found \/ HasStale(links))
          /\ qr' = QuarterlyScan(links, num_quarterly)
          /\ pc' = AfterScan(found, qr', "quarterly_fetch", "finally")
    /\ idx' = 1
    /\ UNCHANGED << toggles, limits, driver, company_dir, annual_reports, ratings,
                    concalls_data, sorted_dates, fetched, report >>

QuarterlyFetch ==
    /\ pc = "quarterly_fetch"
    /\ \E resp \in Responses :
          Attempt("quarterly", QuarterlyPath(qr[idx]), SkipSizePdf, resp)
    /\ idx' = idx + 1
    /\ pc' = IF idx < Len(qr) THEN "quarterly_fetch" ELSE "finally"
    /\ UNCHANGED << toggles, limits, driver, company_dir, all_links, lists,
                    links_seen, swallowed, report >>

\* ------------------------------------------------------------------------
\* except / finally / summary / zip
\* ------------------------------------------------------------------------
\* except Exception as e: progress_status.error(...)
Except ==
    /\ pc = "except"
    /\ error_shown' = TRUE
    /\ pc' = "finally"
    /\ UNCHANGED << toggles, limits, driver, company_dir, all_links, lists, idx,
                    fetched, links_seen, swallowed, summary, archive >>

\* Variant of QuitDriver: the quit sits at the end of the try body instead
\* of the finally clause, so nothing quits the session.
QuitDriverNotInFinally(drv) == drv

\* if driver: try: driver.quit() except: pass
QuitDriver(drv) == IF drv = "None" THEN "None" ELSE "quit"

\* finally:
Finally ==
    /\ pc = "finally"
    /\ driver' = QuitDriver(driver)
    /\ pc' = "summary"
    /\ UNCHANGED << toggles, limits, company_dir, all_links, lists, idx,
                    fetched, links_seen, swallowed, report >>

\* Lines 566-571: the three metrics.
Summary ==
    /\ pc = "summary"
    /\ summary' = << downloaded_count, skipped_count, failed_count >>
    /\ pc' = "zip"
    /\ UNCHANGED << toggles, limits, driver, company_dir, all_links, lists, idx,
                    fetched, links_seen, swallowed, error_shown, archive >>

\* file_path.relative_to(company_dir.parent): <company>/<folder>/<file>
Arcname(filepath) == << "company", filepath >>

\* Variant of ZipStep: the conjuncts swapped, `company_dir.exists() and
\* downloaded_count > 0`, so the name is evaluated whatever the count.
ZipStepDirFirst(count, bound, drs, fls) ==
    IF ~bound THEN [built |-> FALSE, names |-> {}, raised |-> TRUE]
    ELSE IF drs # {} /\ count > 0
         THEN [built |-> TRUE, names |-> { Arcname(q) : q \in DOMAIN fls },
               raised |-> FALSE]
         ELSE NoArchive

\* Lines 574-593.  `downloaded_count > 0 and company_dir.exists()`: the name
\* company_dir is evaluated only when the count is positive, and raises
\* NameError when it was never bound.
ZipStep(count, bound, drs, fls) ==
    IF count > 0
    THEN IF ~bound THEN [built |-> FALSE, names |-> {}, raised |-> TRUE]
         ELSE IF drs # {}
              THEN [built |-> TRUE, names |-> { Arcname(q) : q \in DOMAIN fls },
                    raised |-> FALSE]
              ELSE NoArchive
    ELSE NoArchive

Zip ==
    /\ pc = "zip"
    /\ archive' = ZipStep(downloaded_count, company_dir, dirs, files)
    /\ pc' = "done"
    /\ UNCHANGED << toggles, limits, driver, company_dir, all_links, lists, idx,
                    fetched, links_seen, swallowed, error_shown, summary >>

Next ==
    \/ StartBrowser \/ LoadPage
    \/ AnnualOff \/ AnnualHarvestRaises \/ AnnualScanStep \/ AnnualFetch
    \/ CreditOff \/ CreditHarvestRaises \/ CreditScanStep \/ CreditFetch
    \/ ConcallsOff \/ ConcallsHarvestRaises \/ ConcallsScanStep
    \/ TranscriptFetch \/ PptFetch
    \/ QuarterlyOff \/ QuarterlyHarvestRaises \/ QuarterlyScanStep \/ QuarterlyFetch
    \/ Except \/ Finally \/ Summary \/ Zip

Spec == Init /\ [][Next]_vars

\* ------------------------------------------------------------------------
\* Properties
\* ------------------------------------------------------------------------
FetchPcs == {"annual_fetch", "credit_fetch", "transcript_fetch", "ppt_fetch",
             "quarterly_fetch"}
PdfCats == {"annual", "credit", "quarterly"}
ConcallCats == {"transcript", "ppt"}

\* C1: on every exit path the browser session, if one was started, has been
\* quit by the time the summary is shown, and the summary is always shown:
\* a finished run has shown it, and an unfinished run can always take a step.
C1_TeardownBeforeSummary ==
    /\ (summary # NoSummary => driver # "live")
    /\ (pc = "done" => summary # NoSummary)
    /\ (pc # "done" => ENABLED Next)

\* A run that failed one fetch, then raised after the session was started,
\* and has shown its summary with the session quit.
C1_Witness ==
    /\ error_shown /\ failed_count > 0
    /\ driver = "quit" /\ summary # NoSummary

\* C2 (as stated): whenever an attempt to a path reports downloaded, the next
\* attempt to the same path reports skipped_existing, whatever size was stored.
C2_FetchIdempotent ==
    \A i, j \in 1..Len(log) :
        ( /\ i < j
          /\ log[i].path = log[j].path
          /\ log[i].outcome = "downloaded"
          /\ \A k \in (i + 1)..(j - 1) : log[k].path # log[i].path )
        => log[j].outcome = "skipped_existing"

\* C3 (as stated): 999 bytes deleted and failed, 1000 kept for concall
\* documents; 4999 deleted and failed, 5000 kept for the PDF categories.
C3_BoundaryPerCategory ==
    LET kept(n)    == /\ last.outcome = "downloaded"
                      /\ last.path \in DOMAIN files /\ files[last.path] = n
        deleted    == last.outcome = "failed" /\ last.path \notin DOMAIN files
    IN  /\ (last.cat \in ConcallCats /\ last.resp = Resp("ok", SkipSizeConcall - 1)) => deleted
        /\ (last.cat \in ConcallCats /\ last.resp = Resp("ok", SkipSizeConcall)) => kept(SkipSizeConcall)
        /\ (last.cat \in PdfCats /\ last.resp = Resp("ok", SkipSizePdf - 1)) => deleted
        /\ (last.cat \in PdfCats /\ last.resp = Resp("ok", SkipSizePdf)) => kept(SkipSizePdf)

\* C3 (amended): in every category a body of 999 bytes is deleted and the
\* attempt failed, and a body of 1000, 4999 or 5000 bytes is kept and the
\* attempt downloaded.
C3_BoundaryAllCategories ==
    LET kept(n)    == /\ last.outcome = "downloaded"
                      /\ last.path \in DOMAIN files /\ files[last.path] = n
        deleted    == last.outcome = "failed" /\ last.path \notin DOMAIN files
    IN  /\ last.resp = Resp("ok", MinDownloadSize - 1) => deleted
        /\ \A n \in {MinDownloadSize, SkipSizePdf - 1, SkipSizePdf} :
              last.resp = Resp("ok", n) => kept(n)

\* An annual report whose body had 4999 bytes was kept and counted downloaded.
C3_Witness ==
    /\ last.cat = "annual"
    /\ last.resp = Resp("ok", SkipSizePdf - 1)
    /\ last.outcome = "downloaded"
    /\ files[last.path] = SkipSizePdf - 1

\* The elements of a sequence, and whether they are pairwise distinct.
NoRepeats(sq) == \A i, j \in 1..Len(sq) : i # j => sq[i] # sq[j]
NonIncreasing(sq) == \A i, j \in 1..Len(sq) : i < j => sq[i] >= sq[j]

\* The URLs the concall fetch loop may request, bucket by bucket.
RECURSIVE ConcallUrls(_)
ConcallUrls(keys) ==
    IF keys = << >> THEN << >>
    ELSE LET d == concalls_data[Head(keys)]
         IN  (IF d.transcript # NoUrl THEN << d.transcript >> ELSE << >>)
                 \o (IF d.ppt # NoUrl THEN << d.ppt >> ELSE << >>)
                 \o ConcallUrls(Tail(keys))

\* C4 (as stated): each category's candidate list is sorted non-increasing
\* by date and holds no URL twice.
C4_SortedNoDuplicateUrls ==
    /\ NonIncreasing([i \in 1..Len(annual_reports) |-> annual_reports[i].year])
    /\ NoRepeats([i \in 1..Len(annual_reports) |-> annual_reports[i].url])
    /\ NonIncreasing([i \in 1..Len(ratings) |-> Ordinal(ratings[i].date)])
    /\ NoRepeats([i \in 1..Len(ratings) |-> ratings[i].url])
    /\ NonIncreasing([i \in 1..Len(sorted_dates) |->
                         Ordinal(concalls_data[sorted_dates[i]].date)])
    /\ NoRepeats(ConcallUrls(sorted_dates))
    /\ NonIncreasing([i \in 1..Len(qr) |-> Ordinal(qr[i].date)])
    /\ NoRepeats([i \in 1..Len(qr) |-> qr[i].url])

\* The destination paths of the candidates selected for fetch, in fetch
\* order: a transcript or presentation counts when its box is ticked and
\* its bucket holds a URL for it.
RECURSIVE ConcallPaths(_)
ConcallPaths(keys) ==
    IF keys = << >> THEN << >>
    ELSE LET dk == Head(keys)
             d  == concalls_data[dk]
         IN  (IF d_transcripts /\ d.transcript # NoUrl THEN << TranscriptPath(dk) >>
              ELSE << >>)
                 \o (IF d_presentations /\ d.ppt # NoUrl THEN << PptPath(dk) >>
                     ELSE << >>)
                 \o ConcallPaths(Tail(keys))

SelectedPaths ==
    [i \in 1..Len(annual_reports) |-> AnnualPath(annual_reports[i])]
        \o [i \in 1..Len(ratings) |-> RatingPath(ratings[i])]
        \o ConcallPaths(sorted_dates)
        \o [i \in 1..Len(qr) |-> QuarterlyPath(qr[i])]

Outcomes(o) == { i \in 1..Len(log) : log[i].outcome = o }

\* C5: the three counters always count the attempts made so far, one
\* counter per attempt, and once the run is over the attempts made are
\* exactly the selected candidates, each once and in order, so the three
\* totals sum to the number of candidates selected.
C5_CountsSumToSelected ==
    /\ downloaded_count = Cardinality(Outcomes("downloaded"))
    /\ skipped_count = Cardinality(Outcomes("skipped_existing"))
    /\ failed_count = Cardinality(Outcomes("failed"))
    /\ downloaded_count + skipped_count + failed_count = Len(log)
    /\ pc \in {"summary", "zip", "done"} =>
          /\ [i \in 1..Len(log) |-> log[i].path] = SelectedPaths
          /\ downloaded_count + skipped_count + failed_count = Len(SelectedPaths)

\* A finished run with a download and a skip.
C5_Witness ==
    /\ pc = "done"
    /\ downloaded_count > 0 /\ skipped_count > 0
    /\ summary = << downloaded_count, skipped_count, failed_count >>

\* C6: an archive is built only when a fetch of the run was downloaded; a
\* run without a download builds none, and the packaging step never raises.
C6_ZipOnlyAfterDownload ==
    /\ archive.built => Outcomes("downloaded") # {}
    /\ ~archive.raised
    /\ (pc = "done" /\ Outcomes("downloaded") = {}) => archive = NoArchive

\* A run that aborted before the destination directory was chosen went
\* through the packaging step.
C6_Witness ==
    /\ pc = "done"
    /\ error_shown /\ ~company_dir
    /\ archive = NoArchive

CategoryPcs == {"annual", "credit", "concalls", "quarterly"}

\* C7 (as stated): only a failure to start the session (browser start, page
\* load) aborts a run, so the outer except is entered only before the
\* destination directory is chosen.
C7_OnlySetupAborts == (pc = "except" \/ error_shown) => ~company_dir

\* C7 (amended): the outer except is entered only from the browser start,
\* the page load, or the whole-page harvest of an enabled category (before
\* anything of that category is scanned); a scan that swallows a missing
\* section or an unreadable link goes on to its fetch loop or to the next
\* category, and a fetch attempt never enters the outer except.
C7_AbortOnlyFromSetupOrHarvest ==
    [][ /\ (pc' = "except" /\ pc # "except") =>
              \/ pc \in {"setup", "load"}
              \/ pc \in CategoryPcs /\ UNCHANGED << all_links, lists, swallowed, links_seen >>
        /\ (all_links' # all_links \/ swallowed' # swallowed) =>
              pc' \in FetchPcs \cup CategoryPcs \cup {"finally"}
        /\ (log' # log) => pc' # "except"
      ]_vars

\* A run that swallowed a missing section or an unreadable link, went on,
\* downloaded a file and finished without entering the outer except.
C7_Witness ==
    /\ pc = "done" /\ swallowed /\ ~error_shown
    /\ downloaded_count > 0 /\ archive.built

\* The anchors of the latest harvest that pass a category's tests, in order.
ClassifiedAs(kinds) ==
    SelectSeq(all_links, LAMBDA l : l.kind \in kinds /\ l.href # ""
                                      /\ (l.kind = "annual" \/ l.date # NoDate))
\* all_links is the harvest of the quarterly scan: the scan has run and the
\* run is in its fetch loop or has just left the try body.
QuarterlyScanned ==
    d_quarterly /\ ~error_shown /\ pc \in {"quarterly_fetch", "finally"}
FirstOfUrl(sq, i) == \A j \in 1..(i - 1) : sq[j].href # sq[i].href

\* C8: with limit 0 nothing is dropped for its date or its rank (checked
\* while all_links still holds the category's harvest).  Annual
\* reports and credit ratings: every classified anchor that is the first of
\* its URL is a candidate, whatever its date, and nothing else is.  Concalls
\* and quarterly reports: every bucket and every classified anchor is
\* selected.
C8_ZeroMeansUnlimited ==
    /\ (num_annual = 0 /\ d_annual /\ pc \in {"annual_fetch", "credit"}) =>
          LET c == ClassifiedAs({"annual"}) IN
          /\ \A i \in 1..Len(c) : FirstOfUrl(c, i) =>
                \E k \in 1..Len(annual_reports) :
                    annual_reports[k] = [year |-> c[i].date[1], url |-> c[i].href]
          /\ Len(annual_reports) = Cardinality({ i \in 1..Len(c) : FirstOfUrl(c, i) })
    /\ (num_credit = 0 /\ d_credit /\ pc \in {"credit_fetch", "concalls"}) =>
          LET c == ClassifiedAs({"rating"}) IN
          /\ \A i \in 1..Len(c) : FirstOfUrl(c, i) =>
                \E k \in 1..Len(ratings) :
                    ratings[k].date = c[i].date /\ ratings[k].url = c[i].href
          /\ Len(ratings) = Cardinality({ i \in 1..Len(c) : FirstOfUrl(c, i) })
    /\ num_concalls = 0 =>
          { sorted_dates[i] : i \in 1..Len(sorted_dates) } = DOMAIN concalls_data
    /\ (num_quarterly = 0 /\ QuarterlyScanned) =>
          LET c == ClassifiedAs({"quarterly"}) IN
          /\ Len(qr) = Len(c)
          /\ \A i \in 1..Len(c) : \E k \in 1..Len(qr) : qr[k].url = c[i].href

\* With limit 0 an annual report of 2019 and a recent one are both candidates.
C8_Witness ==
    /\ pc = "annual_fetch" /\ num_annual = 0
    /\ Len(annual_reports) = 2
    /\ annual_reports[2].year < Today[1] - 2

Min(a, b) == IF a < b THEN a ELSE b

\* C9: with a limit N > 0, min(N, M) of the M quarterly candidates (month
\* buckets for concalls) are selected, and no candidate left out is more
\* recent than a selected one.
C9_KeepsMostRecent ==
    /\ (num_quarterly > 0 /\ QuarterlyScanned) =>
          LET c == ClassifiedAs({"quarterly"}) IN
          /\ Len(qr) = Min(num_quarterly, Len(c))
          /\ \A i \in 1..Len(c) :
                \/ \E k \in 1..Len(qr) :
                      qr[k].url = c[i].href /\ qr[k].date[1] = c[i].date[1]
                                            /\ qr[k].date[2] = c[i].date[2]
                \/ \A k \in 1..Len(qr) : Ordinal(c[i].date) <= Ordinal(qr[k].date)
    /\ num_concalls > 0 =>
          LET kept == { sorted_dates[i] : i \in 1..Len(sorted_dates) } IN
          /\ Len(sorted_dates) = Min(num_concalls, Cardinality(DOMAIN concalls_data))
          /\ kept \subseteq DOMAIN concalls_data
          /\ \A out \in (DOMAIN concalls_data) \ kept : \A k \in kept :
                Ordinal(concalls_data[out].date) < Ordinal(concalls_data[k].date)

\* More month buckets than the limit: the older one was left out.
C9_Witness ==
    /\ num_concalls > 0
    /\ Cardinality(DOMAIN concalls_data) > num_concalls
    /\ Len(sorted_dates) = num_concalls
    /\ pc = "transcript_fetch"

ErrorKinds == {"get_raises", "bad_status", "mkdir_raises", "write_raises"}

\* The candidates of the running fetch loop.
LoopLength ==
    CASE pc = "annual_fetch" -> Len(annual_reports)
      [] pc = "credit_fetch" -> Len(ratings)
      [] pc \in {"transcript_fetch", "ppt_fetch"} -> Len(sorted_dates)
      [] pc = "quarterly_fetch" -> Len(qr)
      [] OTHER -> 0

\* C10: a fetch attempt whose GET, status check, directory creation or
\* write raises has outcome failed and adds one to failed_count only; every
\* attempt that is not skipped issues exactly one GET; and the loop goes on
\* with the next candidate when there is one.
C10_FailureCaughtNoRetry ==
    [][ (log' # log) =>
          /\ Len(log') = Len(log) + 1
          /\ (last'.resp.kind \in ErrorKinds => last'.outcome = "failed")
          /\ (last'.outcome = "failed" =>
                /\ failed_count' = failed_count + 1
                /\ downloaded_count' = downloaded_count
                /\ skipped_count' = skipped_count)
          /\ gets' = gets + (IF last'.outcome = "skipped_existing" THEN 0 ELSE 1)
          /\ pc' # "except"
          /\ (idx < LoopLength => pc' \in FetchPcs /\ idx' <= LoopLength)
      ]_vars

\* A credit rating whose status check raised was counted failed, and the
\* loop fetched the next rating.
C10_Witness ==
    /\ Len(log) = 2
    /\ log[1].cat = "credit" /\ log[1].outcome = "failed"
    /\ log[2].cat = "credit" /\ log[2].outcome = "downloaded"
    /\ failed_count = 1 /\ gets = 2

\* ------------------------------------------------------------------------
\* C11: destination paths of the attempts of one run
\* ------------------------------------------------------------------------
\* C11: no two fetch attempts of one run, in the same or in different
\* categories, write to the same destination path.
C11_NoTwoWritesToOnePath ==
    \A i, j \in 1..Len(log) :
        (i < j /\ log[i].wrote /\ log[j].wrote) => log[i].path # log[j].path


\* C11 amended: attempts of different categories never share a destination
\* path, nor even a subdirectory; attempts that share a path belong to one
\* category, and every file and directory on disk is the target of an attempt.
C11_CategoriesWriteDisjoint ==
    /\ \A i, j \in 1..Len(log) :
          log[i].cat # log[j].cat => /\ log[i].path # log[j].path
                                     /\ log[i].path.dir # log[j].path.dir
    /\ \A q \in DOMAIN files : \E i \in 1..Len(log) : log[i].wrote /\ log[i].path = q
    /\ dirs \subseteq { log[i].path.dir : i \in 1..Len(log) }

\* A transcript and a presentation of the same month were both written, and
\* both files are under the company directory.
C11_Witness ==
    \E i, j \in 1..Len(log) :
        /\ log[i].cat = "transcript" /\ log[j].cat = "ppt"
        /\ log[i].wrote /\ log[j].wrote
        /\ log[i].path.stamp = log[j].path.stamp
        /\ {log[i].path, log[j].path} \subseteq DOMAIN files


\* ------------------------------------------------------------------------
\* C12: concall bucketing
\* ------------------------------------------------------------------------
\* all_links is the harvest that concalls_data was built from.
ConcallsScanned ==
    (d_transcripts \/ d_presentations) /\ pc \in {"transcript_fetch", "ppt_fetch", "quarterly"}

\* Positions of the transcript (ppt) anchors of all_links that carry a URL and
\* a date of the month ym.
Sightings(kind, ym) ==
    { i \in 1..Len(all_links) :
        /\ all_links[i].kind = kind /\ all_links[i].href # ""
        /\ all_links[i].date # NoDate
        /\ <<all_links[i].date[1], all_links[i].date[2]>> = ym }

MonthsSeen ==
    { <<all_links[i].date[1], all_links[i].date[2]>> :
        i \in { j \in 1..Len(all_links) :
                  /\ all_links[j].kind \in {"transcript", "ppt"}
                  /\ all_links[j].href # "" /\ all_links[j].date # NoDate } }

\* The URL a bucket must hold for one document type: that of the latest
\* sighting of the type in the month, none if the type was never sighted.
Expected(kind, ym) ==
    IF Sightings(kind, ym) = {} THEN NoUrl
    ELSE all_links[CHOOSE i \in Sightings(kind, ym) :
                      \A j \in Sightings(kind, ym) : j <= i].href

\* C12: after the scan there is exactly one bucket per year-month in which a
\* dated transcript or ppt link was seen; a bucket holds one transcript URL
\* and one presentation URL at most, and a sighting of one document type never
\* removes the URL of the other type; so at most one transcript and one
\* presentation are fetched per month.
C12_OneBucketPerMonth ==
    /\ ConcallsScanned =>
          /\ { <<concalls_data[k].date[1], concalls_data[k].date[2]>> :
                  k \in DOMAIN concalls_data } = MonthsSeen
          /\ Cardinality(DOMAIN concalls_data) = Cardinality(MonthsSeen)
          /\ \A k \in DOMAIN concalls_data :
                LET ym == <<concalls_data[k].date[1], concalls_data[k].date[2]>> IN
                /\ concalls_data[k].transcript = Expected("transcript", ym)
                /\ concalls_data[k].ppt = Expected("ppt", ym)
    /\ \A i, j \in 1..Len(log) :
          ( /\ i < j
            /\ log[i].cat \in ConcallCats
            /\ log[i].cat = log[j].cat ) => log[i].path.stamp # log[j].path.stamp

\* Every link scanned is of one month; its bucket holds a transcript URL and
\* a presentation URL, and one attempt was made for each.
C12_Witness ==
    /\ pc = "quarterly" /\ d_transcripts /\ d_presentations
    /\ Len(all_links) = MaxLinks
    /\ Cardinality(DOMAIN concalls_data) = 1
    /\ \E k \in DOMAIN concalls_data :
          /\ concalls_data[k].transcript # NoUrl
          /\ concalls_data[k].ppt # NoUrl
    /\ Len(log) = 2 /\ log[1].cat = "transcript" /\ log[2].cat = "ppt"


\* ------------------------------------------------------------------------
\* C13: what a failed attempt leaves on disk
\* ------------------------------------------------------------------------
\* C13: after a fetch attempt whose outcome is failed no file is left at the
\* attempt's destination path, and so every file under the company directory
\* at packaging time holds at least MinDownloadSize bytes.
C13_FailedLeavesNoFile ==
    /\ last.outcome = "failed" => last.path \notin DOMAIN files
    /\ pc = "zip" => \A q \in DOMAIN files : files[q] >= MinDownloadSize


\* ------------------------------------------------------------------------
\* C14: contents of the archive
\* ------------------------------------------------------------------------
\* The attempts that are the most recent one to their destination path.
LatestAttempts ==
    { i \in 1..Len(log) : \A j \in (i + 1)..Len(log) : log[j].path # log[i].path }

\* C14: whenever the zip archive is produced it contains at least one file,
\* and every destination path whose most recent outcome in the run was
\* downloaded or skipped_existing is in the archive under
\* <company>/<category folder>/<file name>.
C14_ArchiveHoldsEveryKeptFile ==
    archive.built =>
        /\ archive.names # {}
        /\ \A i \in LatestAttempts :
              log[i].outcome \in {"downloaded", "skipped_existing"}
                  => Arcname(log[i].path) \in archive.names


\* ------------------------------------------------------------------------
\* C15: disabled document types
\* ------------------------------------------------------------------------
\* The toggle that governs a category of attempts / a subdirectory.
ToggleOf(cat) ==
    CASE cat = "annual"     -> d_annual
      [] cat = "credit"     -> d_credit
      [] cat = "transcript" -> d_transcripts
      [] cat = "ppt"        -> d_presentations
      [] cat = "quarterly"  -> d_quarterly
      [] OTHER              -> FALSE

ToggleOfDir(dir) ==
    CASE dir = "Annual_Reports"    -> d_annual
      [] dir = "Credit_Ratings"    -> d_credit
      [] dir = "Transcripts"       -> d_transcripts
      [] dir = "Presentations"     -> d_presentations
      [] dir = "Quarterly_Reports" -> d_quarterly
      [] OTHER                     -> FALSE

\* C15: a document type whose toggle is off is left untouched: every attempt,
\* and so every GET and every change of a counter, is made for an enabled
\* category, no file or directory of a disabled category exists, and the
\* lists of disabled categories stay empty; with one of transcripts and
\* presentations enabled the shared scan fills the buckets, and nothing of the
\* other type is fetched or counted.
C15_DisabledCategoryUntouched ==
    /\ \A i \in 1..Len(log) : ToggleOf(log[i].cat)
    /\ gets = Cardinality({ i \in 1..Len(log) : log[i].outcome # "skipped_existing" })
    /\ downloaded_count = Cardinality(Outcomes("downloaded"))
    /\ skipped_count = Cardinality(Outcomes("skipped_existing"))
    /\ failed_count = Cardinality(Outcomes("failed"))
    /\ \A q \in DOMAIN files : ToggleOfDir(q.dir)
    /\ \A dir \in dirs : ToggleOfDir(dir)
    /\ ~d_annual => annual_reports = << >>
    /\ ~d_credit => ratings = << >>
    /\ ~(d_transcripts \/ d_presentations) => concalls_data = EmptyDict /\ sorted_dates = << >>
    /\ ~d_quarterly => qr = << >>

\* Only transcripts are enabled, the scan found a month with a transcript and
\* a presentation, and the fetch loop has ended with the one transcript
\* attempt.
C15_Witness ==
    /\ d_transcripts /\ ~d_presentations
    /\ pc = "quarterly"
    /\ \E k \in DOMAIN concalls_data :
          concalls_data[k].transcript # NoUrl /\ concalls_data[k].ppt # NoUrl
    /\ Len(log) = 1 /\ log[1].cat = "transcript" /\ log[1].outcome = "downloaded"
    /\ gets = 1 /\ downloaded_count = 1
    /\ DOMAIN files = { log[1].path }

====
